---- MODULE Spec2Model ----
(***************************************************************************)
(* Model of bot.py: the per-guild playback sessions (GuildPlayerState),    *)
(* the command handlers play / skip / leave / clearcache, the callbacks    *)
(* song_finished and check_inactive, the background download task, and    *)
(* the process-wide song cache (global_song_metadata,                      *)
(* current_cache_size_bytes and the files of music/global_cache).          *)
(*                                                                         *)
(* A coroutine is cut into steps at its awaits: one action is the code     *)
(* that runs between two awaits on the event loop.  Synchronous functions  *)
(* (play_next_song, song_finished, check_inactive) and the background task *)
(* (a coroutine without any await) are one action each.                    *)
(***************************************************************************)
EXTENDS Integers, Sequences, FiniteSets, TLC

\* ------------------------------------------------------------------ bounds
NumGuilds == 2
NumIds == 3
MaxQueue == 2
MaxWeight == 2
MaxPending == 1
MaxTasks == 1
MaxRequests == 2
MaxScript == 4

\* MAX_CACHE_SIZE_BYTES of bot.py, scaled to the sizes of the model's files
MAX_CACHE_SIZE_BYTES == 4

Guilds == 1..NumGuilds
Ids == 1..NumIds

\* os.path.getsize of the mp3 file of a video id: one fixed size per content
SizeOf(video_id) == video_id

\* pre_info_dict 'filesize' / 'filesize_approx' for a video id: 0 stands for
\* None (no estimate), otherwise the exact size or one above the capacity
Estimates(video_id) == {0, SizeOf(video_id), MAX_CACHE_SIZE_BYTES + 1}

\* ------------------------------------------------------------------ values
\* A queue element is the string file_path_to_play: either the stream URL of
\* a video or the path global_cache/<id>.mp3.  NoPath stands for None.
Path(video_id, is_url) == [video_id |-> video_id, is_url |-> is_url]
NoPath == [video_id |-> 0, is_url |-> FALSE]
Paths == {Path(i, u) : i \in Ids, u \in BOOLEAN}

\* GuildPlayerState.__init__
GuildPlayerState ==
  [queue |-> <<>>, current_song_path |-> NoPath,
   inactive_timer |-> "None", voice_client |-> "None"]

\* SongMetadata.__init__ followed by metadata.weight = 1
SongMetadata(video_id, size_bytes) ==
  [video_id |-> video_id, file_path |-> Path(video_id, FALSE),
   size_bytes |-> size_bytes, weight |-> 1]

VARIABLES
  disk,                      \* ids whose mp3 file exists in global_cache
  global_song_metadata,      \* the dict, as the sequence of its values in insertion order
  current_cache_size_bytes,
  tasks,                     \* download_song_to_cache_task coroutines created and not yet run, per id
  guild_states,              \* the dict guild id -> GuildPlayerState
  sink_connected,            \* the guild's VoiceClient object: is_connected()
  sink_playing,              \* the guild's VoiceClient object: is_playing()
  after_pending,             \* 'after' callbacks of stopped players not yet delivered
  timers,                    \* call_later handles scheduled, neither fired nor cancelled
  play_task,                 \* the play coroutine of the guild and its locals
  leave_task,                \* the leave coroutine of the guild
  world,                     \* the guilds that use the bot and the videos they ask for
  budget,                    \* play commands still to come (-1: any number)
  blocking,                  \* the blocking call the event loop is inside of, if any
  left,                      \* per guild: leave has ended since a timer was last armed (history)
  last                       \* what the last step did (history, read by the properties only)

vars == <<disk, global_song_metadata, current_cache_size_bytes, tasks, guild_states,
          sink_connected, sink_playing, after_pending, timers, play_task, leave_task,
          world, budget, blocking, left, last>>

cache_vars == <<disk, global_song_metadata, current_cache_size_bytes>>
sink_vars == <<sink_connected, sink_playing, after_pending, timers>>
run_vars == <<world, budget, blocking, left>>

\* ------------------------------------------------------------------ helpers
RECURSIVE SumSizes(_)
SumSizes(meta) ==
  IF meta = <<>> THEN 0 ELSE Head(meta).size_bytes + SumSizes(Tail(meta))

MetaIds(meta) == {meta[i].video_id : i \in 1..Len(meta)}
IndexOf(meta, video_id) == CHOOSE i \in 1..Len(meta) : meta[i].video_id = video_id
RemoveAt(s, i) == SubSeq(s, 1, i - 1) \o SubSeq(s, i + 1, Len(s))

NoLast ==
  [op |-> "none", g |-> 0, video_id |-> 0, kind |-> "", est |-> 0,
   evicted |-> <<>>, rm_failed |-> FALSE,
   popped |-> <<>>, failed |-> <<>>, started |-> NoPath, rearmed |-> FALSE,
   refused |-> FALSE, error |-> FALSE, errors |-> 0, dropped |-> <<>>]

\* A synchronous call that keeps the event loop until it returns: the search,
\* probe or download of a play command (n: the guild) or the download of a
\* background task (n: the video id).  NoCall: the loop is free.
Call(by, n) == [by |-> by, n |-> n]
NoCall == Call("none", 0)

\* A play coroutine: where it waits and the video it has resolved; freed
\* (history) tells that its eviction loop has removed entries
Idle == [pc |-> "idle", video_id |-> 0, freed |-> FALSE]
Task(pc, video_id) == [pc |-> pc, video_id |-> video_id, freed |-> FALSE]

\* ------------------------------------------------------------------ registry
\* (variant of get_or_create_guild_state: a new GuildPlayerState every time)
get_or_create_guild_state_fresh(states, g) ==
  (g :> GuildPlayerState) @@ [h \in DOMAIN states \ {g} |-> states[h]]

\* get_or_create_guild_state: the dict with the guild's state present
get_or_create_guild_state(states, g) ==
  IF g \in DOMAIN states THEN states ELSE (g :> GuildPlayerState) @@ states

\* ------------------------------------------------------------------ cache
\* (variant of song_to_evict_index: keeps the last of the smallest weights)
RECURSIVE MinScanLast(_, _, _)
MinScanLast(meta, best, i) ==
  IF i > Len(meta) THEN best
  ELSE MinScanLast(meta, IF meta[i].weight <= meta[best].weight THEN i ELSE best, i + 1)

song_to_evict_index_last(meta) == MinScanLast(meta, 1, 2)

\* min(global_song_metadata, key=lambda k: global_song_metadata[k].weight):
\* Python's min scans in iteration (insertion) order and keeps the first of
\* the smallest keys.  best is the index kept so far, i the index looked at.
RECURSIVE MinScan(_, _, _)
MinScan(meta, best, i) ==
  IF i > Len(meta) THEN best
  ELSE MinScan(meta, IF meta[i].weight < meta[best].weight THEN i ELSE best, i + 1)

song_to_evict_index(meta) == MinScan(meta, 1, 2)

\* (variant of eviction_loop: once the cache is too full the loop empties it)
RECURSIVE eviction_loop_all(_, _, _)
eviction_loop_all(c, new_song_size_bytes, fail_at) ==
  IF ~((c.total + new_song_size_bytes > MAX_CACHE_SIZE_BYTES \/ c.evicted # <<>>)
       /\ c.meta # <<>>) THEN c
  ELSE LET i == song_to_evict_index(c.meta)
           song == c.meta[i]
           attempt == Len(c.evicted) + 1
       IN IF song.video_id \notin c.disk \/ attempt = fail_at
          THEN [c EXCEPT !.rm_failed = TRUE]
          ELSE eviction_loop_all(
                 [c EXCEPT !.disk = @ \ {song.video_id},
                           !.total = @ - song.size_bytes,
                           !.meta = RemoveAt(@, i),
                           !.evicted = Append(@, song)],
                 new_song_size_bytes, fail_at)

\* (variant of eviction_loop: an entry whose file cannot be removed is
\* dropped from the metadata all the same and the loop goes on)
RECURSIVE eviction_loop_continue(_, _, _)
eviction_loop_continue(c, new_song_size_bytes, fail_at) ==
  IF ~(c.total + new_song_size_bytes > MAX_CACHE_SIZE_BYTES /\ c.meta # <<>>) THEN c
  ELSE LET i == song_to_evict_index(c.meta)
           song == c.meta[i]
           attempt == Len(c.evicted) + 1
           removed == ~(song.video_id \notin c.disk \/ (attempt = fail_at /\ ~c.rm_failed))
       IN eviction_loop_continue(
            [c EXCEPT !.disk = IF removed THEN @ \ {song.video_id} ELSE @,
                      !.total = @ - song.size_bytes,
                      !.meta = RemoveAt(@, i),
                      !.evicted = IF removed THEN Append(@, song) ELSE @,
                      !.rm_failed = @ \/ ~removed],
            new_song_size_bytes, fail_at)

\* The eviction loop of play.  c is [meta, total, disk, evicted, rm_failed],
\* evicted being the entries removed so far;
\* fail_at is the number of the os.remove call that the filesystem refuses
\* (0: none); os.remove of a file that is not there raises as well.
RECURSIVE eviction_loop(_, _, _)
eviction_loop(c, new_song_size_bytes, fail_at) ==
  IF ~(c.total + new_song_size_bytes > MAX_CACHE_SIZE_BYTES /\ c.meta # <<>>) THEN c
  ELSE LET i == song_to_evict_index(c.meta)
           song == c.meta[i]
           attempt == Len(c.evicted) + 1
       IN IF song.video_id \notin c.disk \/ attempt = fail_at
          THEN [c EXCEPT !.rm_failed = TRUE]
          ELSE eviction_loop(
                 [c EXCEPT !.disk = @ \ {song.video_id},
                           !.total = @ - song.size_bytes,
                           !.meta = RemoveAt(@, i),
                           !.evicted = Append(@, song)],
                 new_song_size_bytes, fail_at)

\* (variant of evict_before_download: nothing is evicted)
evict_before_download_never(meta, total, files, new_song_size_bytes, fail_at) ==
  [meta |-> meta, total |-> total, disk |-> files, evicted |-> <<>>, rm_failed |-> FALSE]

\* "if new_song_size_bytes:" around the loop: no estimate, no eviction
evict_before_download(meta, total, files, new_song_size_bytes, fail_at) ==
  LET c0 == [meta |-> meta, total |-> total, disk |-> files,
             evicted |-> <<>>, rm_failed |-> FALSE]
  IN IF new_song_size_bytes # 0 THEN eviction_loop(c0, new_song_size_bytes, fail_at) ELSE c0

\* (variant of update_metadata: a hit counts the size of the song again)
update_metadata_recount(c, video_id, is_stream, song_size_bytes) ==
  IF video_id \in MetaIds(c.meta)
  THEN [c EXCEPT !.meta[IndexOf(c.meta, video_id)].weight = @ + 1,
                 !.total = @ + song_size_bytes]
  ELSE IF ~is_stream
       THEN [meta |-> Append(c.meta, SongMetadata(video_id, song_size_bytes)),
             total |-> c.total + song_size_bytes]
       ELSE c

\* (variant of update_metadata: a streamed video gets its entry at once)
update_metadata_on_stream(c, video_id, is_stream, song_size_bytes) ==
  IF video_id \in MetaIds(c.meta)
  THEN [c EXCEPT !.meta[IndexOf(c.meta, video_id)].weight = @ + 1]
  ELSE [meta |-> Append(c.meta, SongMetadata(video_id, song_size_bytes)),
        total |-> c.total + song_size_bytes]

\* Step 4 of play, "Metadata handling": c is [meta, total]
update_metadata(c, video_id, is_stream, song_size_bytes) ==
  IF video_id \in MetaIds(c.meta)
  THEN [c EXCEPT !.meta[IndexOf(c.meta, video_id)].weight = @ + 1]
  ELSE IF ~is_stream
       THEN [meta |-> Append(c.meta, SongMetadata(video_id, song_size_bytes)),
             total |-> c.total + song_size_bytes]
       ELSE c

\* (variant of commit_download: a video already in the metadata is counted
\* again)
commit_download_recount(c, video_id, actual_song_size) ==
  IF video_id \in MetaIds(c.meta)
  THEN [c EXCEPT !.meta[IndexOf(c.meta, video_id)].size_bytes = actual_song_size,
                 !.total = @ + actual_song_size]
  ELSE [meta |-> Append(c.meta, SongMetadata(video_id, actual_song_size)),
        total |-> c.total + actual_song_size]

\* download_song_to_cache_task, "if download_success and final_file_path"
commit_download(c, video_id, actual_song_size) ==
  IF video_id \in MetaIds(c.meta)
  THEN [c EXCEPT !.meta[IndexOf(c.meta, video_id)].size_bytes = actual_song_size]
  ELSE [meta |-> Append(c.meta, SongMetadata(video_id, actual_song_size)),
        total |-> c.total + actual_song_size]

\* (variant of queue_after_fetch: the song is appended whether its file is
\* there or not)
queue_after_fetch_always(queue, file_path, downloaded) == Append(queue, file_path)

\* play, from the end of the download to queue.append: without the file play
\* returns (line 540) or the exception handler answers (lines 613-620);
\* otherwise the path is appended (line 591)
queue_after_fetch(queue, file_path, downloaded) ==
  IF downloaded THEN Append(queue, file_path) ELSE queue

\* (variant of task_result: a failed download leaves an entry for the video)
task_result_tentative(c, video_id, download_success, actual_song_size) ==
  IF download_success \/ video_id \notin MetaIds(c.meta)
  THEN commit_download(c, video_id, actual_song_size)
  ELSE c

\* download_song_to_cache_task, lines 1001-1031: the metadata when the
\* download is over; a failed download only logs a warning
task_result(c, video_id, download_success, actual_song_size) ==
  IF download_success
  THEN commit_download(c, video_id, actual_song_size)
  ELSE c

\* ------------------------------------------------------------------ session
\* One guild seen by the synchronous playback functions: the fields of its
\* GuildPlayerState, the state of its VoiceClient and its scheduled timers,
\* and what the call has done so far (popped, failed, started, rearmed;
\* refused: voice_client.play raised because the client was playing already).
View(states, g) ==
  [queue |-> states[g].queue,
   current_song_path |-> states[g].current_song_path,
   inactive_timer |-> states[g].inactive_timer,
   voice_client |-> states[g].voice_client,
   connected |-> sink_connected[g], playing |-> sink_playing[g],
   timers |-> timers[g],
   popped |-> <<>>, failed |-> <<>>, started |-> NoPath, rearmed |-> FALSE,
   refused |-> FALSE]

SessionOf(v) ==
  [queue |-> v.queue, current_song_path |-> v.current_song_path,
   inactive_timer |-> v.inactive_timer, voice_client |-> v.voice_client]

\* voice_client and voice_client.is_connected()
is_connected(v) == v.voice_client = "vc" /\ v.connected
\* voice_client and voice_client.is_playing()
is_playing(v) == v.voice_client = "vc" /\ v.playing

\* "if guild_state.inactive_timer: inactive_timer.cancel(); inactive_timer = None"
\* (cancel of a handle that has fired already does nothing)
cancel_timer(v) ==
  [v EXCEPT !.timers = IF v.inactive_timer = "scheduled" THEN @ - 1 ELSE @,
            !.inactive_timer = "None"]

\* (variant of arm_timer: the old handle is dropped without cancel)
arm_timer_no_cancel(v) ==
  [v EXCEPT !.timers = @ + 1, !.inactive_timer = "scheduled",
            !.rearmed = (v.inactive_timer = "scheduled")]

\* play_next_song, lines 849-852: cancel the old handle, call_later a new one
arm_timer(v) ==
  [v EXCEPT !.timers = (IF v.inactive_timer = "scheduled" THEN @ - 1 ELSE @) + 1,
            !.inactive_timer = "scheduled",
            !.rearmed = (v.inactive_timer = "scheduled")]

\* (variant of dequeue: queue.pop() takes the newest element)
dequeue_last(queue) ==
  [file_path |-> queue[Len(queue)], rest |-> SubSeq(queue, 1, Len(queue) - 1)]

\* queue.pop(0) of play_next_song
dequeue(queue) == [file_path |-> Head(queue), rest |-> Tail(queue)]

\* What play_next_song does with an element that cannot be played: the
\* message, current_song_path = None, then play_next_song again (by the caller)
give_up(v1) ==
  [v1 EXCEPT !.current_song_path = NoPath, !.failed = Append(@, v1.current_song_path)]

\* (variant of play_next_song: an element that cannot be played ends the call)
play_next_song_no_retry(v, files, raise_at) ==
  IF ~is_connected(v)
  THEN [cancel_timer(v) EXCEPT !.queue = <<>>, !.current_song_path = NoPath]
  ELSE IF v.queue # <<>>
  THEN LET file_path == dequeue(v.queue).file_path
           v1 == [v EXCEPT !.queue = dequeue(v.queue).rest, !.current_song_path = file_path,
                           !.popped = Append(@, file_path)]
       IN IF (~file_path.is_url /\ file_path.video_id \notin files)
             \/ v1.playing \/ Len(v1.popped) \in raise_at
          THEN give_up(v1)
          ELSE [arm_timer(v1) EXCEPT !.playing = TRUE, !.started = file_path]
  ELSE [v EXCEPT !.current_song_path = NoPath]

\* (variant of play_next_song: an element that cannot be played goes back to
\* the end of the queue, once)
RECURSIVE play_next_song_requeue(_, _, _)
play_next_song_requeue(v, files, raise_at) ==
  IF ~is_connected(v)
  THEN [cancel_timer(v) EXCEPT !.queue = <<>>, !.current_song_path = NoPath]
  ELSE IF v.queue # <<>>
  THEN LET file_path == dequeue(v.queue).file_path
           v1 == [v EXCEPT !.queue = dequeue(v.queue).rest, !.current_song_path = file_path,
                           !.popped = Append(@, file_path)]
           again == Len(v.failed) = 0
       IN IF (~file_path.is_url /\ file_path.video_id \notin files)
             \/ v1.playing \/ Len(v1.popped) \in raise_at
          THEN play_next_song_requeue(
                 [give_up(v1) EXCEPT !.queue = IF again THEN Append(@, file_path) ELSE @],
                 files, raise_at)
          ELSE [arm_timer(v1) EXCEPT !.playing = TRUE, !.started = file_path]
  ELSE [v EXCEPT !.current_song_path = NoPath]

\* (variant of play_next_song: the element that starts stays in the queue)
RECURSIVE play_next_song_keep(_, _, _)
play_next_song_keep(v, files, raise_at) ==
  IF ~is_connected(v)
  THEN [cancel_timer(v) EXCEPT !.queue = <<>>, !.current_song_path = NoPath]
  ELSE IF v.queue # <<>>
  THEN LET file_path == dequeue(v.queue).file_path
           v1 == [v EXCEPT !.queue = dequeue(v.queue).rest, !.current_song_path = file_path,
                           !.popped = Append(@, file_path)]
       IN IF (~file_path.is_url /\ file_path.video_id \notin files)
             \/ v1.playing \/ Len(v1.popped) \in raise_at
          THEN play_next_song_keep(give_up(v1), files, raise_at)
          ELSE [arm_timer(v1) EXCEPT !.playing = TRUE, !.started = file_path,
                                     !.queue = <<file_path>> \o @]
  ELSE [v EXCEPT !.current_song_path = NoPath]

\* (variant of play_next_song: an empty queue cancels the timer)
RECURSIVE play_next_song_cancel(_, _, _)
play_next_song_cancel(v, files, raise_at) ==
  IF ~is_connected(v)
  THEN [cancel_timer(v) EXCEPT !.queue = <<>>, !.current_song_path = NoPath]
  ELSE IF v.queue # <<>>
  THEN LET file_path == dequeue(v.queue).file_path
           v1 == [v EXCEPT !.queue = dequeue(v.queue).rest, !.current_song_path = file_path,
                           !.popped = Append(@, file_path)]
       IN IF (~file_path.is_url /\ file_path.video_id \notin files)
             \/ v1.playing \/ Len(v1.popped) \in raise_at
          THEN play_next_song_cancel(give_up(v1), files, raise_at)
          ELSE [arm_timer(v1) EXCEPT !.playing = TRUE, !.started = file_path]
  ELSE [cancel_timer(v) EXCEPT !.current_song_path = NoPath]

\* play_next_song.  files: the mp3 files on disk; raise_at: the attempts of
\* this call (1st pop, 2nd pop, ...) at which building the audio source or
\* voice_client.play raises for a reason of the sink's own; play raises in
\* any case when the client is already playing.
RECURSIVE play_next_song(_, _, _)
play_next_song(v, files, raise_at) ==
  IF ~is_connected(v)
  THEN [cancel_timer(v) EXCEPT !.queue = <<>>, !.current_song_path = NoPath]
  ELSE IF v.queue # <<>>
  THEN LET file_path == dequeue(v.queue).file_path
           v1 == [v EXCEPT !.queue = dequeue(v.queue).rest, !.current_song_path = file_path,
                           !.popped = Append(@, file_path)]
       IN IF ~file_path.is_url /\ file_path.video_id \notin files
          THEN play_next_song(give_up(v1), files, raise_at)
          ELSE IF v1.playing \/ Len(v1.popped) \in raise_at
          THEN play_next_song([give_up(v1) EXCEPT !.refused = @ \/ v1.playing],
                              files, raise_at)
          ELSE [arm_timer(v1) EXCEPT !.playing = TRUE, !.started = file_path]
  ELSE [v EXCEPT !.current_song_path = NoPath]

\* (variant of song_finished: a playback error ends the session's playback)
song_finished_fatal(v, files, raise_at, error) ==
  LET v1 == [v EXCEPT !.current_song_path = NoPath]
  IN IF is_connected(v1) /\ ~error
     THEN play_next_song(v1, files, raise_at)
     ELSE [cancel_timer(v1) EXCEPT !.queue = <<>>]

\* (variant of song_finished: without a connection only current is cleared)
song_finished_keeps_queue(v, files, raise_at, error) ==
  LET v1 == [v EXCEPT !.current_song_path = NoPath]
  IN IF is_connected(v1)
     THEN play_next_song(v1, files, raise_at)
     ELSE v1

\* song_finished: error (the player's exception, if any) is logged and
\* reported to the channel, nothing else depends on it
song_finished(v, files, raise_at, error) ==
  LET v1 == [v EXCEPT !.current_song_path = NoPath]
  IN IF is_connected(v1)
     THEN play_next_song(v1, files, raise_at)
     ELSE [cancel_timer(v1) EXCEPT !.queue = <<>>]

\* (variant of check_inactive: without the early return of an active guild)
check_inactive_always(v) ==
  IF is_connected(v)
  THEN [cancel_timer(v) EXCEPT !.voice_client = "None", !.connected = FALSE,
                               !.queue = <<>>]
  ELSE cancel_timer(v)

\* (variant of check_inactive: the disconnect leaves the queue as it is)
check_inactive_keeps_queue(v) ==
  IF v.current_song_path # NoPath \/ is_playing(v)
  THEN v
  ELSE IF is_connected(v)
  THEN [cancel_timer(v) EXCEPT !.voice_client = "None", !.connected = FALSE]
  ELSE cancel_timer(v)

\* check_inactive
check_inactive(v) ==
  IF v.current_song_path # NoPath \/ is_playing(v)
  THEN v
  ELSE IF is_connected(v)
  THEN [cancel_timer(v) EXCEPT !.voice_client = "None", !.connected = FALSE,
                               !.queue = <<>>]
  ELSE cancel_timer(v)

\* (variant of Store: the guilds share one state object)
Store_shared(states, g, v) ==
  /\ guild_states' = [h \in DOMAIN states |-> SessionOf(v)]
  /\ sink_connected' = [sink_connected EXCEPT ![g] = v.connected]
  /\ sink_playing' = [sink_playing EXCEPT ![g] = v.playing]
  /\ timers' = [timers EXCEPT ![g] = v.timers]

\* Writes a view back: the guild's state object, its sink and its timers
Store(states, g, v) ==
  /\ guild_states' = [states EXCEPT ![g] = SessionOf(v)]
  /\ sink_connected' = [sink_connected EXCEPT ![g] = v.connected]
  /\ sink_playing' = [sink_playing EXCEPT ![g] = v.playing]
  /\ timers' = [timers EXCEPT ![g] = v.timers]

\* (history) a timer armed by the call ends the time since the last leave
Rearmed(g, v) ==
  left' = [left EXCEPT ![g] = IF v.started # NoPath THEN FALSE ELSE @]

Advanced(op, g, v) ==
  [NoLast EXCEPT !.op = op, !.g = g, !.popped = v.popped, !.failed = v.failed,
                 !.started = v.started, !.rearmed = v.rearmed, !.refused = v.refused]

\* ------------------------------------------------------------------ Init
\* The process after startup: no guild has issued a command; meta, total and
\* files are the cache it starts with.
InitWith(w, requests, meta, total, files) ==
  /\ disk = files
  /\ global_song_metadata = meta
  /\ current_cache_size_bytes = total
  /\ tasks = [i \in Ids |-> 0]
  /\ guild_states = <<>>
  /\ sink_connected = [g \in Guilds |-> FALSE]
  /\ sink_playing = [g \in Guilds |-> FALSE]
  /\ after_pending = [g \in Guilds |-> 0]
  /\ timers = [g \in Guilds |-> 0]
  /\ play_task = [g \in Guilds |-> Idle]
  /\ leave_task = [g \in Guilds |-> "idle"]
  /\ world = w
  /\ budget = requests
  /\ blocking = NoCall
  /\ left = [g \in Guilds |-> FALSE]
  /\ last = NoLast

\* The process after on_ready: the metadata dict is empty (it is never
\* persisted), so initialize_cache_state leaves the size at 0 and the mp3
\* files an earlier run left in the cache directory stay there without
\* metadata.  One guild, one video, any number of commands.
Init ==
  \E files \in SUBSET {1} :
    InitWith([tenants |-> {1}, catalog |-> {1}], -1, <<>>, 0, files)

\* The sink stops its player (stop, disconnect, end of the track): the
\* 'after' callback of a player that was running is now owed.
StopPlayer(g) ==
  /\ sink_playing[g] => after_pending[g] < MaxPending
  /\ sink_playing' = [sink_playing EXCEPT ![g] = FALSE]
  /\ after_pending' = [after_pending EXCEPT ![g] = IF sink_playing[g] THEN @ + 1 ELSE @]

\* ------------------------------------------------------------------ play
\* play, up to "await user_voice_channel.connect()" or, when the bot is in
\* the channel already, up to the search
play(g) ==
  /\ play_task[g].pc = "idle"
  /\ budget # 0
  /\ budget' = IF budget > 0 THEN budget - 1 ELSE budget
  /\ UNCHANGED <<world, blocking, left>>
  /\ LET states == get_or_create_guild_state(guild_states, g)
     IN /\ Len(states[g].queue) < MaxQueue
        /\ IF states[g].voice_client = "vc" /\ sink_connected[g]
           THEN /\ guild_states' = states
                /\ play_task' = [play_task EXCEPT ![g] = Task("resolve", 0)]
           ELSE /\ guild_states' = [states EXCEPT ![g].voice_client = "None"]
                /\ play_task' = [play_task EXCEPT ![g] = Task("connect", 0)]
  /\ last' = NoLast
  /\ UNCHANGED <<cache_vars, tasks, sink_vars, leave_task>>

\* play, resumed by connect(): it raises ClientException when the guild has a
\* connected voice client already, and may fail for reasons of its own
play_connected(g) ==
  /\ play_task[g].pc = "connect"
  /\ \E ok \in BOOLEAN :
       IF ok /\ ~sink_connected[g]
       THEN /\ guild_states' = [guild_states EXCEPT ![g].voice_client = "vc"]
            /\ sink_connected' = [sink_connected EXCEPT ![g] = TRUE]
            /\ play_task' = [play_task EXCEPT ![g] = Task("resolve", 0)]
       ELSE /\ guild_states' = [guild_states EXCEPT ![g].voice_client = "None"]
            /\ sink_connected' = sink_connected
            /\ play_task' = [play_task EXCEPT ![g] = Idle]
  /\ last' = NoLast
  /\ UNCHANGED <<run_vars, cache_vars, tasks, sink_playing, after_pending, timers, leave_task>>

\* play enters a call that does not return to the event loop before it is
\* done: search_youtube and extract_info after "Searching ...", or
\* ydl.download after "Downloading audio ..."
play_fetch(g) ==
  /\ play_task[g].pc \in {"resolve", "download"}
  /\ blocking = NoCall
  /\ blocking' = Call("play", g)
  /\ last' = NoLast
  /\ UNCHANGED <<world, budget, left, cache_vars, tasks, guild_states, sink_vars,
                 play_task, leave_task>>

\* play, from the search to the await that follows the cache check: the search
\* or extract_info may fail (found = FALSE); on a cache miss the eviction loop
\* runs, then the stream url is looked for
play_resolve(g) ==
  /\ play_task[g].pc = "resolve"
  /\ blocking = Call("play", g)
  /\ blocking' = NoCall
  /\ \E found \in BOOLEAN, video_id \in world.catalog, has_stream \in BOOLEAN, fail_at \in 0..NumIds :
       \E est \in Estimates(video_id) :
         IF ~found
         THEN /\ play_task' = [play_task EXCEPT ![g] = Idle]
              /\ last' = [NoLast EXCEPT !.op = "play_failed", !.g = g]
              /\ UNCHANGED cache_vars
         ELSE IF video_id \in disk
         THEN /\ play_task' = [play_task EXCEPT ![g] = Task("hit", video_id)]
              /\ last' = NoLast
              /\ UNCHANGED cache_vars
         ELSE LET c == evict_before_download(global_song_metadata,
                           current_cache_size_bytes, disk, est, fail_at)
              IN /\ fail_at <= Len(c.evicted) + 1
                 /\ (fail_at # 0 => c.rm_failed)
                 /\ global_song_metadata' = c.meta
                 /\ current_cache_size_bytes' = c.total
                 /\ disk' = c.disk
                 /\ play_task' = [play_task EXCEPT ![g] =
                       [Task(IF has_stream THEN "stream" ELSE "download", video_id)
                          EXCEPT !.freed = c.evicted # <<>>]]
                 /\ last' = [NoLast EXCEPT !.op = "evict", !.g = g, !.video_id = video_id, !.est = est,
                                           !.evicted = c.evicted, !.rm_failed = c.rm_failed]
  /\ UNCHANGED <<world, budget, left, tasks, guild_states, sink_vars, leave_task>>

\* play, resumed after the message of the cache check, up to the await that
\* follows queue.append: the blocking download (when there is no stream url,
\* downloaded = FALSE when it raises or leaves no file), the creation of the
\* background task (when there is one), Step 4
play_enqueue(g) ==
  /\ play_task[g].pc \in {"hit", "stream", "download"}
  /\ blocking = IF play_task[g].pc = "download" THEN Call("play", g) ELSE NoCall
  /\ blocking' = NoCall
  /\ LET t == play_task[g]
         video_id == t.video_id
         is_stream == t.pc = "stream"
     IN \E downloaded \in BOOLEAN :
          /\ (t.pc # "download" => downloaded)
          /\ IF ~downloaded
             THEN /\ play_task' = [play_task EXCEPT ![g] = Idle]
                  /\ guild_states' = [guild_states EXCEPT ![g].queue =
                        queue_after_fetch(@, Path(video_id, is_stream), FALSE)]
                  /\ last' = [NoLast EXCEPT !.op = "play_failed", !.g = g,
                                            !.video_id = video_id]
                  /\ UNCHANGED <<cache_vars, tasks>>
             ELSE LET files == IF t.pc = "download" THEN disk \cup {video_id} ELSE disk
                      song_size_bytes ==
                        IF ~is_stream /\ video_id \in files THEN SizeOf(video_id) ELSE 0
                      c == update_metadata(
                             [meta |-> global_song_metadata, total |-> current_cache_size_bytes],
                             video_id, is_stream, song_size_bytes)
                  IN /\ \A i \in 1..Len(c.meta) : c.meta[i].weight <= MaxWeight
                     /\ (t.pc = "stream" => tasks[video_id] < MaxTasks)
                     /\ disk' = files
                     /\ global_song_metadata' = c.meta
                     /\ current_cache_size_bytes' = c.total
                     /\ tasks' = IF t.pc = "stream"
                                 THEN [tasks EXCEPT ![video_id] = @ + 1] ELSE tasks
                     /\ guild_states' = [guild_states EXCEPT ![g].queue =
                           queue_after_fetch(@, Path(video_id, is_stream), TRUE)]
                     /\ play_task' = [play_task EXCEPT ![g] = Task("added", 0)]
                     /\ last' = [NoLast EXCEPT !.op = "enqueue", !.g = g, !.video_id = video_id,
                                               !.kind = t.pc]
  /\ UNCHANGED <<world, budget, left, sink_vars, leave_task>>

\* play, resumed after "Added to queue": lines 595-610
play_added(g) ==
  /\ play_task[g].pc = "added"
  /\ LET v == View(guild_states, g)
     IN \E raise_at \in SUBSET (1..Len(v.queue)) :
          LET v1 == IF v.current_song_path = NoPath /\ is_connected(v)
                    THEN play_next_song(v, disk, raise_at) ELSE v
              v2 == IF v1.current_song_path = NoPath /\ is_connected(v1)
                    THEN play_next_song(v1, disk, raise_at) ELSE v1
          IN /\ Store(guild_states, g, v2)
             /\ Rearmed(g, v2)
             /\ last' = Advanced("play", g, v2)
  /\ play_task' = [play_task EXCEPT ![g] = Idle]
  /\ UNCHANGED <<world, budget, blocking, cache_vars, tasks, after_pending, leave_task>>

\* ------------------------------------------------------------------ skip, leave
\* (variant of skip: after stop() the command clears the current song itself)
skip_clears(g) ==
  LET states == get_or_create_guild_state(guild_states, g)
      v == View(states, g)
  IN IF is_playing(v)
     THEN /\ StopPlayer(g)
          /\ guild_states' = [states EXCEPT ![g].current_song_path = NoPath]
          /\ last' = [NoLast EXCEPT !.op = "stop", !.g = g]
          /\ UNCHANGED <<sink_connected, timers, left>>
     ELSE IF v.voice_client = "vc" /\ v.current_song_path # NoPath
     THEN /\ \E raise_at \in SUBSET (1..Len(v.queue)) :
               LET v1 == play_next_song(v, disk, raise_at)
               IN /\ Store(states, g, v1)
                  /\ Rearmed(g, v1)
                  /\ last' = [Advanced("skip", g, v1) EXCEPT
                                !.dropped = IF is_connected(v) THEN <<>> ELSE v.queue]
          /\ UNCHANGED after_pending
     ELSE /\ guild_states' = states
          /\ last' = [NoLast EXCEPT !.op = "skip_nothing", !.g = g]
          /\ UNCHANGED <<sink_vars, left>>

\* skip: stop() ends the player, whose 'after' callback then runs
\* song_finished; a stuck current song is advanced directly; otherwise skip
\* only answers
skip(g) ==
  LET states == get_or_create_guild_state(guild_states, g)
      v == View(states, g)
  IN IF is_playing(v)
     THEN /\ StopPlayer(g)
          /\ guild_states' = states
          /\ last' = [NoLast EXCEPT !.op = "stop", !.g = g]
          /\ UNCHANGED <<sink_connected, timers, left>>
     ELSE IF v.voice_client = "vc" /\ v.current_song_path # NoPath
     THEN /\ \E raise_at \in SUBSET (1..Len(v.queue)) :
               LET v1 == play_next_song(v, disk, raise_at)
               IN /\ Store(states, g, v1)
                  /\ Rearmed(g, v1)
                  /\ last' = [Advanced("skip", g, v1) EXCEPT
                                !.dropped = IF is_connected(v) THEN <<>> ELSE v.queue]
          /\ UNCHANGED after_pending
     ELSE /\ guild_states' = states
          /\ last' = [NoLast EXCEPT !.op = "skip_nothing", !.g = g]
          /\ UNCHANGED <<sink_vars, left>>

skip_command(g) ==
  /\ skip(g)
  /\ UNCHANGED <<world, budget, blocking, cache_vars, tasks, play_task, leave_task>>

\* leave, up to "await voice_client.disconnect()": the client stops its player
\* and closes the connection; without a connected voice client leave only
\* answers and is done
leave(g) ==
  /\ leave_task[g] = "idle"
  /\ LET states == get_or_create_guild_state(guild_states, g)
     IN /\ guild_states' = states
        /\ IF states[g].voice_client = "vc" /\ sink_connected[g]
           THEN /\ StopPlayer(g)
                /\ sink_connected' = [sink_connected EXCEPT ![g] = FALSE]
                /\ leave_task' = [leave_task EXCEPT ![g] = "disconnect"]
                /\ last' = NoLast
                /\ UNCHANGED left
           ELSE /\ last' = [NoLast EXCEPT !.op = "leave_not_connected", !.g = g]
                /\ left' = [left EXCEPT ![g] = TRUE]
                /\ UNCHANGED <<sink_connected, sink_playing, after_pending, leave_task>>
  /\ UNCHANGED <<world, budget, blocking, cache_vars, tasks, timers, play_task>>

\* leave, resumed after the disconnect: lines 658-667
leave_resumed(g) ==
  /\ leave_task[g] = "disconnect"
  /\ LET v == View(guild_states, g)
         v1 == [cancel_timer(v) EXCEPT !.voice_client = "None", !.queue = <<>>,
                                       !.current_song_path = NoPath]
     IN Store(guild_states, g, v1)
  /\ leave_task' = [leave_task EXCEPT ![g] = "idle"]
  /\ last' = [NoLast EXCEPT !.op = "leave", !.g = g]
  /\ left' = [left EXCEPT ![g] = TRUE]
  /\ UNCHANGED <<world, budget, blocking, cache_vars, tasks, after_pending, play_task>>

\* ------------------------------------------------------------------ ping
\* ping: looks the guild's state up and answers with the latency
ping(g) ==
  /\ guild_states' = get_or_create_guild_state(guild_states, g)
  /\ last' = [NoLast EXCEPT !.op = "ping", !.g = g]
  /\ UNCHANGED <<run_vars, cache_vars, tasks, sink_vars, play_task, leave_task>>

\* ------------------------------------------------------------------ clearcache
\* (variant of clearcache: the entries whose file could not be removed stay)
clearcache_aborts(g) ==
  LET states == get_or_create_guild_state(guild_states, g)
      v == View(states, g)
  IN /\ guild_states' = states
     /\ IF is_playing(v) /\ v.current_song_path # NoPath
        THEN /\ last' = [NoLast EXCEPT !.op = "clearcache_refused", !.g = g]
             /\ UNCHANGED cache_vars
        ELSE \E rm_fails \in SUBSET (MetaIds(global_song_metadata) \cap disk) :
               /\ global_song_metadata # <<>> \/ g \notin DOMAIN guild_states
               /\ disk' = (disk \ MetaIds(global_song_metadata)) \cup rm_fails
               /\ global_song_metadata' =
                    SelectSeq(global_song_metadata, LAMBDA e : e.video_id \in rm_fails)
               /\ current_cache_size_bytes' = SumSizes(global_song_metadata')
               /\ last' = [NoLast EXCEPT !.op = "clearcache", !.g = g,
                                         !.evicted = global_song_metadata,
                                         !.rm_failed = (rm_fails # {}),
                                         !.errors = Cardinality(rm_fails)]
     /\ UNCHANGED <<run_vars, tasks, sink_vars, play_task, leave_task>>

\* clearcache: refused while the invoking guild plays; otherwise every file of
\* the metadata is removed (the files of rm_fails excepted, whose os.remove
\* raises), the dict is cleared and the size reset
clearcache(g) ==
  LET states == get_or_create_guild_state(guild_states, g)
      v == View(states, g)
  IN /\ guild_states' = states
     /\ IF is_playing(v) /\ v.current_song_path # NoPath
        THEN /\ last' = [NoLast EXCEPT !.op = "clearcache_refused", !.g = g]
             /\ UNCHANGED cache_vars
        ELSE \E rm_fails \in SUBSET (MetaIds(global_song_metadata) \cap disk) :
               /\ global_song_metadata # <<>> \/ g \notin DOMAIN guild_states
               /\ disk' = (disk \ MetaIds(global_song_metadata)) \cup rm_fails
               /\ global_song_metadata' = <<>>
               /\ current_cache_size_bytes' = 0
               /\ last' = [NoLast EXCEPT !.op = "clearcache", !.g = g,
                                         !.evicted = global_song_metadata,
                                         !.rm_failed = (rm_fails # {}),
                                         !.errors = Cardinality(rm_fails)]
     /\ UNCHANGED <<run_vars, tasks, sink_vars, play_task, leave_task>>

\* ------------------------------------------------------------------ sink, timer
\* The player of the guild's voice client reaches the end of its source
track_ends(g) ==
  /\ sink_playing[g]
  /\ StopPlayer(g)
  /\ last' = NoLast
  /\ UNCHANGED <<run_vars, cache_vars, tasks, guild_states, sink_connected, timers, play_task, leave_task>>

\* The connection of the guild's voice client is closed from outside
sink_lost(g) ==
  /\ sink_connected[g]
  /\ StopPlayer(g)
  /\ sink_connected' = [sink_connected EXCEPT ![g] = FALSE]
  /\ last' = NoLast
  /\ UNCHANGED <<run_vars, cache_vars, tasks, guild_states, timers, play_task, leave_task>>

\* The 'after' callback of a stopped player: song_finished(file_path, guild_state, error)
after(g) ==
  /\ after_pending[g] > 0
  /\ LET v == View(guild_states, g)
     IN \E raise_at \in SUBSET (1..Len(v.queue)), error \in BOOLEAN :
          LET v1 == song_finished(v, disk, raise_at, error)
          IN /\ Store(guild_states, g, v1)
             /\ Rearmed(g, v1)
             /\ last' = [Advanced("song_finished", g, v1) EXCEPT
                           !.error = error,
                           !.dropped = IF is_connected(v) THEN <<>> ELSE v.queue]
  /\ after_pending' = [after_pending EXCEPT ![g] = @ - 1]
  /\ UNCHANGED <<world, budget, blocking, cache_vars, tasks, play_task, leave_task>>

\* A call_later handle of the guild comes due: the loop runs check_inactive.
\* own: it is the handle guild_state.inactive_timer refers to.
timer_fires(g) ==
  /\ timers[g] > 0
  /\ \E own \in BOOLEAN :
       LET v == View(guild_states, g)
           others == v.timers - (IF v.inactive_timer = "scheduled" THEN 1 ELSE 0)
           fired == [v EXCEPT !.timers = @ - 1,
                              !.inactive_timer = IF own THEN "fired" ELSE @]
       IN /\ IF own THEN v.inactive_timer = "scheduled" ELSE others > 0
          /\ Store(guild_states, g, check_inactive(fired))
  /\ last' = [NoLast EXCEPT !.op = "check_inactive", !.g = g,
       !.kind = LET v == View(guild_states, g)
                IN IF v.current_song_path # NoPath \/ is_playing(v) THEN "active"
                   ELSE IF is_connected(v) THEN "disconnect" ELSE "cleanup"]
  /\ UNCHANGED <<run_vars, cache_vars, tasks, after_pending, play_task, leave_task>>

\* ------------------------------------------------------------------ background task
\* The loop runs a created download_song_to_cache_task, which enters
\* ydl.download: a call that keeps the loop until the download is done
task_starts(video_id) ==
  /\ tasks[video_id] > 0
  /\ blocking = NoCall
  /\ blocking' = Call("task", video_id)
  /\ last' = NoLast
  /\ UNCHANGED <<world, budget, left, cache_vars, tasks, guild_states, sink_vars,
                 play_task, leave_task>>

\* download_song_to_cache_task: the download (download_success = FALSE when it
\* raises or leaves no file), then the update of the metadata
download_song_to_cache_task(video_id) ==
  /\ blocking = Call("task", video_id)
  /\ blocking' = NoCall
  /\ tasks' = [tasks EXCEPT ![video_id] = @ - 1]
  /\ \E download_success \in BOOLEAN :
       LET c == task_result(
                  [meta |-> global_song_metadata, total |-> current_cache_size_bytes],
                  video_id, download_success, SizeOf(video_id))
       IN /\ disk' = IF download_success THEN disk \cup {video_id} ELSE disk
          /\ global_song_metadata' = c.meta
          /\ current_cache_size_bytes' = c.total
          /\ last' = IF download_success
                     THEN [NoLast EXCEPT !.op = "commit", !.video_id = video_id,
                             !.kind = IF video_id \in MetaIds(global_song_metadata)
                                      THEN "update" ELSE "insert"]
                     ELSE [NoLast EXCEPT !.op = "task_failed", !.video_id = video_id]
  /\ UNCHANGED <<world, budget, left, guild_states, sink_vars, play_task, leave_task>>

\* ------------------------------------------------------------------ Next
\* A step of the event loop: a command handler starting or resuming, or a
\* timer callback.  The loop takes none while it is inside a blocking call.
\* (The 'after' callback is called by the player's own thread.)
OnLoop(step) == blocking = NoCall /\ step

Next ==
  \/ \E g \in world.tenants : OnLoop(play(g))
  \/ \E g \in world.tenants : OnLoop(play_connected(g))
  \/ \E g \in world.tenants : play_fetch(g)
  \/ \E g \in world.tenants : play_resolve(g)
  \/ \E g \in world.tenants : play_enqueue(g)
  \/ \E g \in world.tenants : OnLoop(play_added(g))
  \/ \E g \in world.tenants : OnLoop(skip_command(g))
  \/ \E g \in world.tenants : OnLoop(leave(g))
  \/ \E g \in world.tenants : OnLoop(leave_resumed(g))
  \/ \E g \in world.tenants : OnLoop(ping(g))
  \/ \E g \in world.tenants : OnLoop(clearcache(g))
  \/ \E g \in world.tenants : track_ends(g)
  \/ \E g \in world.tenants : sink_lost(g)
  \/ \E g \in world.tenants : after(g)
  \/ \E g \in world.tenants : OnLoop(timer_fires(g))
  \/ \E video_id \in world.catalog : task_starts(video_id)
  \/ \E video_id \in world.catalog : download_song_to_cache_task(video_id)

Spec == Init /\ [][Next]_vars

\* The caches earlier commands may have left behind when every guild has
\* left its channel again: any videos in any insertion order with any weights,
\* their files on disk, sizes and total size as measured.
RECURSIVE Orders(_)
Orders(S) ==
  IF S = {} THEN {<<>>}
  ELSE UNION {{<<x>> \o o : o \in Orders(S \ {x})} : x \in S}

Caches ==
  UNION {{[i \in 1..Len(o) |->
             [SongMetadata(o[i], SizeOf(o[i])) EXCEPT !.weight = w[o[i]]]] :
            w \in [S -> 1..MaxWeight], o \in Orders(S)} : S \in SUBSET Ids}

InitCache ==
  \E meta \in Caches :
    InitWith([tenants |-> Guilds, catalog |-> Ids], MaxRequests,
             meta, SumSizes(meta), MetaIds(meta))

\* The steps of SpecCache: the play command, clearcache and the background
\* task (the songs started keep playing)
NextCache ==
  \/ \E g \in world.tenants : OnLoop(play(g))
  \/ \E g \in world.tenants : OnLoop(play_connected(g))
  \/ \E g \in world.tenants : play_fetch(g)
  \/ \E g \in world.tenants : play_resolve(g)
  \/ \E g \in world.tenants : play_enqueue(g)
  \/ \E g \in world.tenants : OnLoop(play_added(g))
  \/ \E g \in world.tenants : OnLoop(clearcache(g))
  \/ \E video_id \in world.catalog : task_starts(video_id)
  \/ \E video_id \in world.catalog : download_song_to_cache_task(video_id)

SpecCache == InitCache /\ [][NextCache]_vars

\* ------------------------------------------------------------------ two guilds
\* Two guilds that issue MaxGuildRequests play commands between them, and
\* any number of skip and leave commands: the steps are those of the
\* commands that work on a guild's session, of the players and of the timers.
MaxGuildRequests == 2

InitGuilds ==
  InitWith([tenants |-> Guilds, catalog |-> {1}], MaxGuildRequests, <<>>, 0, {1})

NextGuilds ==
  \/ \E g \in world.tenants : OnLoop(play(g))
  \/ \E g \in world.tenants : OnLoop(play_connected(g))
  \/ \E g \in world.tenants : play_fetch(g)
  \/ \E g \in world.tenants : play_resolve(g)
  \/ \E g \in world.tenants : play_enqueue(g)
  \/ \E g \in world.tenants : OnLoop(play_added(g))
  \/ \E g \in world.tenants : OnLoop(skip_command(g))
  \/ \E g \in world.tenants : OnLoop(leave(g))
  \/ \E g \in world.tenants : OnLoop(leave_resumed(g))
  \/ \E g \in world.tenants : track_ends(g)
  \/ \E g \in world.tenants : sink_lost(g)
  \/ \E g \in world.tenants : after(g)
  \/ \E g \in world.tenants : OnLoop(timer_fires(g))

SpecGuilds == InitGuilds /\ [][NextGuilds]_vars

\* ------------------------------------------------------------------ startup
\* initialize_cache_state: the entries whose mp3 file is in the directory and
\* whose os.path.getsize succeeds are kept, with the size read from the file;
\* the total is the sum of the sizes read.  Files without metadata are logged
\* only.  Nothing is removed from the directory.  Without the directory only
\* the total is reset.
\* (variant of initialize_cache_state: the total counts every prior entry)
initialize_cache_state_counts_all(meta, files, unreadable, isdir) ==
  IF ~isdir THEN [meta |-> meta, total |-> 0]
  ELSE LET kept == SelectSeq(meta, LAMBDA e : e.video_id \in files \ unreadable)
           metadata_to_keep ==
             [i \in 1..Len(kept) |-> [kept[i] EXCEPT !.size_bytes = SizeOf(kept[i].video_id)]]
       IN [meta |-> metadata_to_keep, total |-> SumSizes(meta)]

initialize_cache_state(meta, files, unreadable, isdir) ==
  IF ~isdir THEN [meta |-> meta, total |-> 0]
  ELSE LET kept == SelectSeq(meta, LAMBDA e : e.video_id \in files \ unreadable)
           metadata_to_keep ==
             [i \in 1..Len(kept) |-> [kept[i] EXCEPT !.size_bytes = SizeOf(kept[i].video_id)]]
       IN [meta |-> metadata_to_keep, total |-> SumSizes(metadata_to_keep)]

\* The script's entry point: initialize_cache_state() and then bot.run, which
\* starts the event loop.  The directory exists, the module has created it
\* while it was loaded.
Startup == Call("startup", 0)

startup ==
  /\ blocking = Startup
  /\ LET r == initialize_cache_state(global_song_metadata, disk, world.unreadable, TRUE)
     IN /\ global_song_metadata' = r.meta
        /\ current_cache_size_bytes' = r.total
        /\ last' = [NoLast EXCEPT !.op = "startup", !.evicted = global_song_metadata]
  /\ blocking' = NoCall
  /\ UNCHANGED <<disk, tasks, guild_states, sink_vars, play_task, leave_task,
                 world, budget, left>>

\* The metadata dicts a process may hold before startup: any entries in any
\* order, with the size recorded when the entry was made (the file may have
\* changed since)
PriorCaches ==
  UNION {{[i \in 1..Len(o) |-> SongMetadata(o[i], z[o[i]])] :
            z \in [S -> {0, 1} \cup {SizeOf(x) : x \in S}], o \in Orders(S)} : S \in SUBSET Ids}

\* Before the entry point runs: some prior metadata, some files in the
\* directory, some of them unreadable by os.path.getsize
InitStartup ==
  \E meta \in PriorCaches, files \in SUBSET Ids :
    \E unreadable \in SUBSET files :
      /\ disk = files
      /\ global_song_metadata = meta
      /\ current_cache_size_bytes = 0
      /\ tasks = [i \in Ids |-> 0]
      /\ guild_states = <<>>
      /\ sink_connected = [g \in Guilds |-> FALSE]
      /\ sink_playing = [g \in Guilds |-> FALSE]
      /\ after_pending = [g \in Guilds |-> 0]
      /\ timers = [g \in Guilds |-> 0]
      /\ play_task = [g \in Guilds |-> Idle]
      /\ leave_task = [g \in Guilds |-> "idle"]
      /\ world = [tenants |-> {1}, catalog |-> Ids, unreadable |-> unreadable]
      /\ budget = 1
      /\ blocking = Startup
      /\ left = [g \in Guilds |-> FALSE]
      /\ last = NoLast

NextStartup ==
  \/ startup
  \/ NextCache

SpecStartup == InitStartup /\ [][NextStartup]_vars

\* One guild that issues MaxRequests play commands and then none, and never
\* leaves: the steps are those of play, of the player and its callback, of
\* the timer and of the background task.
InitLive ==
  \E files \in SUBSET {1} :
    InitWith([tenants |-> {1}, catalog |-> {1}], MaxRequests, <<>>, 0, files)

NextLive ==
  \/ \E g \in world.tenants : OnLoop(play(g))
  \/ \E g \in world.tenants : OnLoop(play_connected(g))
  \/ \E g \in world.tenants : play_fetch(g)
  \/ \E g \in world.tenants : play_resolve(g)
  \/ \E g \in world.tenants : play_enqueue(g)
  \/ \E g \in world.tenants : OnLoop(play_added(g))
  \/ \E g \in world.tenants : track_ends(g)
  \/ \E g \in world.tenants : after(g)
  \/ \E g \in world.tenants : OnLoop(timer_fires(g))
  \/ \E video_id \in world.catalog : task_starts(video_id)
  \/ \E video_id \in world.catalog : download_song_to_cache_task(video_id)

\* What the runtime guarantees: a coroutine that can resume does, a blocking
\* call returns, a song comes to its end, the player calls 'after', a
\* call_later handle that is not cancelled comes due, a created task runs.
FairLive ==
  /\ \A g \in Guilds : WF_vars(OnLoop(play_connected(g)))
  /\ \A g \in Guilds : WF_vars(play_fetch(g))
  /\ \A g \in Guilds : WF_vars(play_resolve(g))
  /\ \A g \in Guilds : WF_vars(play_enqueue(g))
  /\ \A g \in Guilds : WF_vars(OnLoop(play_added(g)))
  /\ \A g \in Guilds : WF_vars(track_ends(g))
  /\ \A g \in Guilds : WF_vars(after(g))
  /\ \A g \in Guilds : WF_vars(OnLoop(timer_fires(g)))
  /\ \A video_id \in Ids : WF_vars(task_starts(video_id))
  /\ \A video_id \in Ids : WF_vars(download_song_to_cache_task(video_id))

SpecLive == InitLive /\ [][NextLive]_vars /\ FairLive

\* One guild that sends the play commands of a script one after the other,
\* starting with an empty cache directory: every search succeeds, the size
\* announced for a video is its real size, no video has a stream url (each is
\* downloaded before it is queued), and no os.remove or download fails.
Scripts == [1..MaxScript -> Ids]

InitScript ==
  \E script \in Scripts :
    InitWith([tenants |-> {1}, catalog |-> Ids, script |-> script], MaxScript, <<>>, 0, {})

\* The request the play command in progress belongs to
Request == MaxScript - budget

script_connected(g) ==
  /\ play_connected(g)
  /\ play_task'[g].pc = "resolve"

script_resolve(g) ==
  /\ play_resolve(g)
  /\ play_task'[g].video_id = world.script[Request]
  /\ play_task'[g].pc \in {"hit", "download"}
  /\ last'.op = "evict" => last'.est = SizeOf(last'.video_id) /\ ~last'.rm_failed

script_enqueue(g) ==
  /\ play_enqueue(g)
  /\ play_task'[g].pc = "added"

NextScript ==
  \/ \E g \in world.tenants : OnLoop(play(g))
  \/ \E g \in world.tenants : OnLoop(script_connected(g))
  \/ \E g \in world.tenants : play_fetch(g)
  \/ \E g \in world.tenants : script_resolve(g)
  \/ \E g \in world.tenants : script_enqueue(g)
  \/ \E g \in world.tenants : OnLoop(play_added(g))
  \/ \E g \in world.tenants : track_ends(g)
  \/ \E g \in world.tenants : after(g)

SpecScript == InitScript /\ [][NextScript]_vars

\* ------------------------------------------------------------------ claims
\* The queue of guild g before the step (a guild without state has none)
QueueBefore(g) == IF g \in DOMAIN guild_states THEN guild_states[g].queue ELSE <<>>

\* The last step ran play_next_song or song_finished for guild last.g
IsAdvance(l) == l.op \in {"play", "skip", "song_finished"}

\* C1: in every reachable state current_cache_size_bytes equals the sum of
\* size_bytes over the entries of global_song_metadata.
C1_SizeIsSumOfEntries ==
  current_cache_size_bytes = SumSizes(global_song_metadata)

\* C2: when play goes on to fetch a song after the eviction loop, the size of
\* the cache plus the size asked for does not exceed MAX_CACHE_SIZE_BYTES.
C2_FetchFitsCapacity ==
  (last.op = "evict" /\ play_task[last.g].pc \in {"stream", "download"})
    => current_cache_size_bytes + last.est <= MAX_CACHE_SIZE_BYTES

\* victims were removed from meta one after the other, each being, when it was
\* removed, of the smallest weight and the earliest inserted of that weight
RECURSIVE EvictsLeast(_, _)
EvictsLeast(meta, victims) ==
  \/ victims = <<>>
  \/ /\ \E i \in 1..Len(meta) :
          /\ meta[i] = Head(victims)
          /\ \A j \in 1..Len(meta) :
               \/ meta[j].weight > meta[i].weight
               \/ meta[j].weight = meta[i].weight /\ j >= i
     /\ EvictsLeast(SelectSeq(meta, LAMBDA e : e # Head(victims)), Tail(victims))

\* C3: every entry the eviction loop removes has the smallest weight of the
\* entries present at that moment and, among those of that weight, is the one
\* inserted first; nothing else leaves the metadata.
C3_EvictsLeastWeightOldestFirst ==
  [][last'.op = "evict" =>
       /\ EvictsLeast(global_song_metadata, last'.evicted)
       /\ Len(global_song_metadata') = Len(global_song_metadata) - Len(last'.evicted)
       /\ \A i \in 1..Len(global_song_metadata) :
            \/ \E k \in 1..Len(last'.evicted) : last'.evicted[k] = global_song_metadata[i]
            \/ \E j \in 1..Len(global_song_metadata') :
                 global_song_metadata'[j] = global_song_metadata[i]]_vars

\* An eviction removed an entry and kept a younger one of the same weight
C3_TieBrokenByAge ==
  /\ last.op = "evict"
  /\ \E k \in 1..Len(last.evicted), j \in 1..Len(global_song_metadata) :
       global_song_metadata[j].weight = last.evicted[k].weight

\* C4: a play of a song found in the cache whose id has an entry adds exactly
\* 1 to the weight of that entry and changes no other entry nor the size.
C4_HitAddsOneToWeight ==
  [][(/\ last'.op = "enqueue"
      /\ last'.kind = "hit"
      /\ last'.video_id \in MetaIds(global_song_metadata)) =>
       /\ global_song_metadata' =
            [global_song_metadata EXCEPT
               ![IndexOf(global_song_metadata, last'.video_id)].weight = @ + 1]
       /\ current_cache_size_bytes' = current_cache_size_bytes
       /\ disk' = disk]_vars

\* A hit has raised the weight of an entry that is not the only one
C4_HitCounted ==
  /\ last.op = "enqueue"
  /\ last.kind = "hit"
  /\ Len(global_song_metadata) >= 2
  /\ \E i \in 1..Len(global_song_metadata) :
       /\ global_song_metadata[i].video_id = last.video_id
       /\ global_song_metadata[i].weight = 2

\* C5: a queue changes only by an append at its end, by the removal of its
\* first elements in their order (the last of them being the one that starts),
\* or by being emptied; so an element queued before another is popped first
\* and no element is popped twice.
C5_QueueIsFifo ==
  [][\A g \in DOMAIN guild_states' :
       LET q == QueueBefore(g)
           q2 == guild_states'[g].queue
           n == IF last'.g = g THEN Len(last'.popped) ELSE 0
       IN IF n > 0
          THEN /\ n <= Len(q)
               /\ last'.popped = SubSeq(q, 1, n)
               /\ q2 = SubSeq(q, n + 1, Len(q))
               /\ last'.started \in {NoPath, q[n]}
          ELSE \/ q2 = q
               \/ q2 = <<>>
               \/ Len(q2) = Len(q) + 1 /\ SubSeq(q2, 1, Len(q)) = q]_vars

\* A song has started while a different one, queued after it, still waits
C5_OlderStartedFirst ==
  /\ IsAdvance(last)
  /\ last.started # NoPath
  /\ guild_states[last.g].queue # <<>>
  /\ guild_states[last.g].queue[1] # last.started

\* C6: a guild has at most one scheduled inactivity timer, and a song that
\* starts leaves exactly one, the one inactive_timer refers to.
C6_OneLiveTimer ==
  /\ \A g \in Guilds : timers[g] <= 1
  /\ (IsAdvance(last) /\ last.started # NoPath) =>
       /\ timers[last.g] = 1
       /\ guild_states[last.g].inactive_timer = "scheduled"

\* A song has started while a timer was scheduled, which was cancelled
C6_TimerReplaced ==
  IsAdvance(last) /\ last.started # NoPath /\ last.rearmed

\* C7: check_inactive changes neither the queue, the current song, the voice
\* client nor the sink when a song is current or the sink plays, or when the
\* guild is idle and not connected; and running it once more on the state it
\* leaves changes nothing.
C7_CheckInactiveNoOp ==
  [][last'.op = "check_inactive" =>
       LET g == last'.g
           before == View(guild_states, g)
           after_once == [queue |-> guild_states'[g].queue,
                          current_song_path |-> guild_states'[g].current_song_path,
                          inactive_timer |-> guild_states'[g].inactive_timer,
                          voice_client |-> guild_states'[g].voice_client,
                          connected |-> sink_connected'[g], playing |-> sink_playing'[g],
                          timers |-> timers'[g],
                          popped |-> <<>>, failed |-> <<>>, started |-> NoPath,
                          rearmed |-> FALSE, refused |-> FALSE]
       IN /\ (before.current_song_path # NoPath \/ is_playing(before)
              \/ ~is_connected(before)) =>
               /\ after_once.queue = before.queue
               /\ after_once.current_song_path = before.current_song_path
               /\ after_once.voice_client = before.voice_client
               /\ after_once.connected = before.connected
               /\ after_once.playing = before.playing
          /\ check_inactive(after_once) = after_once]_vars

\* check_inactive has run for a guild whose current song is set and whose
\* queue holds a song
C7_FiredWhileActive ==
  /\ last.op = "check_inactive"
  /\ guild_states[last.g].current_song_path # NoPath
  /\ guild_states[last.g].queue # <<>>
  /\ sink_connected[last.g]

\* C8: the elements play_next_song could not play are the first of the queue,
\* each reported once; the element after them has started in the same step,
\* or, when there is none, the queue is empty and no song is current.
C8_FailedEntrySkipped ==
  [][(IsAdvance(last') /\ last'.failed # <<>>) =>
       LET g == last'.g
           q == QueueBefore(g)
           n == Len(last'.failed)
       IN /\ n <= Len(q)
          /\ last'.failed = SubSeq(q, 1, n)
          /\ IF n < Len(q)
             THEN /\ last'.started = q[n + 1]
                  /\ guild_states'[g].current_song_path = q[n + 1]
                  /\ guild_states'[g].queue = SubSeq(q, n + 2, Len(q))
                  /\ sink_playing'[g]
             ELSE /\ last'.started = NoPath
                  /\ guild_states'[g].current_song_path = NoPath
                  /\ guild_states'[g].queue = <<>>]_vars

\* An element could not be played and the one behind it has started
C8_NextStartedAfterFailure ==
  /\ IsAdvance(last)
  /\ Len(last.failed) = 1
  /\ last.started # NoPath
  /\ guild_states[last.g].current_song_path = last.started

\* C9: one run of play_next_song tries no more elements than the queue held,
\* each once, leaves the queue shorter by the elements tried and puts none
\* back; when all of them fail the guild is left with an empty queue and no
\* current song.
C9_AdvanceTerminates ==
  [][IsAdvance(last') =>
       LET g == last'.g
           q == QueueBefore(g)
           tried == Len(last'.popped)
       IN /\ tried <= Len(q)
          /\ Len(last'.failed) <= tried
          /\ tried > 0 => Len(guild_states'[g].queue) = Len(q) - tried
          /\ \A k \in 1..Len(last'.failed), j \in 1..Len(guild_states'[g].queue) :
               j + tried <= Len(q) /\ guild_states'[g].queue[j] = q[j + tried]
          /\ (tried > 0 /\ Len(last'.failed) = tried) =>
               /\ guild_states'[g].queue = <<>>
               /\ guild_states'[g].current_song_path = NoPath]_vars

\* A queue of two elements was tried to its end, both failing
C9_AllFailed ==
  /\ IsAdvance(last)
  /\ Len(last.failed) = 2
  /\ last.started = NoPath
  /\ guild_states[last.g].queue = <<>>
  /\ guild_states[last.g].current_song_path = NoPath

\* C10: the eviction loop removes no entry whose file is the current song of
\* a guild.
C10_EvictionSparesCurrent ==
  last.op = "evict" =>
    \A g \in DOMAIN guild_states : \A k \in 1..Len(last.evicted) :
      guild_states[g].current_song_path # last.evicted[k].file_path

\* C11: clearcache removes no entry while a guild, whichever it is, plays a
\* current song that is the file of that entry.
C11_ClearcacheSparesCurrent ==
  last.op = "clearcache" =>
    \A g \in DOMAIN guild_states : \A k \in 1..Len(last.evicted) :
      ~(sink_playing[g] /\ guild_states[g].current_song_path = last.evicted[k].file_path)

\* C12: for every guild, current_song_path is set exactly when its voice
\* client reports that it is playing.
C12_CurrentIffPlaying ==
  \A g \in DOMAIN guild_states :
    (guild_states[g].current_song_path # NoPath) <=> is_playing(View(guild_states, g))

\* C13 as stated: no element of a guild's queue equals its current song.
C13_QueueExcludesCurrent ==
  \A g \in DOMAIN guild_states : \A i \in 1..Len(guild_states[g].queue) :
    guild_states[g].queue[i] # guild_states[g].current_song_path

\* C13, amended: a song becomes current only by being popped off the queue:
\* it was the n-th element of the queue, the first n elements are removed in
\* that step and the rest stays; the queue holds an element equal to the
\* current song only when the same song was queued once more.
C13_CurrentLeavesQueue ==
  [][\A g \in DOMAIN guild_states' :
       LET q == QueueBefore(g)
           cur == IF g \in DOMAIN guild_states
                  THEN guild_states[g].current_song_path ELSE NoPath
           cur2 == guild_states'[g].current_song_path
           starts == IsAdvance(last') /\ last'.g = g /\ last'.started # NoPath
       IN (cur2 # NoPath /\ (cur2 # cur \/ starts)) =>
            /\ starts
            /\ last'.started = cur2
            /\ \E n \in 1..Len(q) :
                 /\ n = Len(last'.popped)
                 /\ q[n] = cur2
                 /\ guild_states'[g].queue = SubSeq(q, n + 1, Len(q))]_vars

\* A song has started and the same song, queued twice, is still in the queue
C13_SameSongStillQueued ==
  /\ IsAdvance(last)
  /\ last.started # NoPath
  /\ guild_states[last.g].current_song_path = last.started
  /\ guild_states[last.g].queue = <<last.started>>

\* C14: when leave has ended, whatever the state it found, the guild's sink is
\* disconnected, its queue is empty, no song is current and no inactivity
\* timer is scheduled.
C14_LeaveClearsSession ==
  last.op \in {"leave", "leave_not_connected"} =>
    /\ ~sink_connected[last.g]
    /\ guild_states[last.g].queue = <<>>
    /\ guild_states[last.g].current_song_path = NoPath
    /\ timers[last.g] = 0

\* C15: a check_inactive that runs when leave has ended since the timer was
\* armed changes neither the queue, the current song nor the voice client of
\* the guild and disconnects no sink.
C15_NoOpAfterLeave ==
  [][(last'.op = "check_inactive" /\ left[last'.g]) =>
       /\ guild_states'[last'.g].queue = guild_states[last'.g].queue
       /\ guild_states'[last'.g].current_song_path = guild_states[last'.g].current_song_path
       /\ guild_states'[last'.g].voice_client = guild_states[last'.g].voice_client
       /\ sink_connected'[last'.g] = sink_connected[last'.g]]_vars

\* Guild g is connected and idle and nothing more will come for it: no song
\* is current or queued, the sink is silent, no callback is owed, no play is
\* in progress and no play command is left
IdleForGood(g) ==
  /\ g \in DOMAIN guild_states
  /\ sink_connected[g]
  /\ ~sink_playing[g]
  /\ guild_states[g].current_song_path = NoPath
  /\ guild_states[g].queue = <<>>
  /\ after_pending[g] = 0
  /\ play_task[g].pc = "idle"
  /\ budget = 0

\* C16: a connected guild that has become idle, with no play or leave to
\* come, is eventually disconnected.
C16_IdleEventuallyDisconnected ==
  \A g \in Guilds : IdleForGood(g) ~> ~sink_connected[g]

\* C17: no eviction loop removes entries while another play command is
\* between its own eviction loop and the insertion of its song.
C17_NoEvictionBetweenReserveAndInsert ==
  (last.op = "evict" /\ last.evicted # <<>>) =>
    \A g \in world.tenants \ {last.g} :
      ~(play_task[g].pc \in {"stream", "download"} /\ play_task[g].freed)

\* C18: song_finished never runs between the steps of a play or leave
\* command of the same guild: when it has run, neither command of that guild
\* is suspended at one of its awaits.
C18_SongFinishedBetweenNoSteps ==
  last.op = "song_finished" =>
    play_task[last.g].pc = "idle" /\ leave_task[last.g] = "idle"

\* C19: while the search, probe or download of one guild's play command is
\* in progress, every other guild's play command that is ready to resume (to
\* go on after connecting, or to start playback after enqueueing) can be
\* resumed by the event loop.
C19_FetchDelaysNoOtherGuild ==
  blocking.by = "play" =>
    \A g \in world.tenants \ {blocking.n} :
      /\ (ENABLED play_connected(g)) => ENABLED OnLoop(play_connected(g))
      /\ (ENABLED play_added(g)) => ENABLED OnLoop(play_added(g))

\* C20: when a finished download (of a background task, or of a play
\* command) is recorded for a video that already has an entry, the metadata
\* keeps the same entries for the same videos in the same places and the
\* accounted total does not change.
C20_CommitUpdatesInPlace ==
  [][(last'.op \in {"commit", "enqueue"}
        /\ last'.video_id \in MetaIds(global_song_metadata)) =>
       /\ Len(global_song_metadata') = Len(global_song_metadata)
       /\ \A k \in 1..Len(global_song_metadata) :
            global_song_metadata'[k].video_id = global_song_metadata[k].video_id
       /\ current_cache_size_bytes' = current_cache_size_bytes]_vars

\* A background download has been committed for a video that was already in
\* the metadata
C20_CommittedTwice ==
  last.op = "commit" /\ last.kind = "update"

\* C21: a background download that fails leaves the entries of
\* global_song_metadata, all their fields and current_cache_size_bytes as
\* they were, so no entry for the video exists because of that task.
C21_FailedTaskLeavesCache ==
  [][last'.op = "task_failed" =>
       /\ global_song_metadata' = global_song_metadata
       /\ current_cache_size_bytes' = current_cache_size_bytes
       /\ (last'.video_id \notin MetaIds(global_song_metadata)
             => last'.video_id \notin MetaIds(global_song_metadata'))]_vars

\* A background download of a video without entry has just failed
C21_TaskFailed ==
  last.op = "task_failed" /\ last.video_id \notin MetaIds(global_song_metadata)

\* C22: when os.remove of the eviction victim fails, the play command that
\* ran the eviction loop does not go on to stream or download the new song.
C22_FailedEvictionAbortsPlay ==
  (last.op = "evict" /\ last.rm_failed) =>
    play_task[last.g].pc \notin {"stream", "download"}

\* The play coroutine of guild g takes a step that comes before queue.append
BeforeAppend(g) ==
  /\ play_task'[g] # play_task[g]
  /\ play_task[g].pc \in {"idle", "connect", "resolve", "download"}
  /\ play_task'[g].pc # "added"

\* C23: a play command whose search, probe or download fails leaves the
\* guild's queue and current song as they were: no step of play before
\* queue.append changes them, and the step at which it fails ends the command.
C23_FailedPlayLeavesQueue ==
  [][\A g \in Guilds :
       (BeforeAppend(g) \/ (last'.op = "play_failed" /\ last'.g = g)) =>
         /\ guild_states'[g].queue = QueueBefore(g)
         /\ guild_states'[g].current_song_path =
              (IF g \in DOMAIN guild_states
               THEN guild_states[g].current_song_path ELSE NoPath)
         /\ (last'.op = "play_failed" => play_task'[g] = Idle)]_vars

\* A download has just failed for a guild that has a song playing and one
\* waiting in its queue
C23_FetchFailedWhileQueued ==
  /\ last.op = "play_failed" /\ last.video_id # 0
  /\ guild_states[last.g].queue # <<>>
  /\ guild_states[last.g].current_song_path # NoPath

\* The step starts a command of guild g, which looks the guild's state up
\* with get_or_create_guild_state and changes none of its fields by itself
LooksUp(g) ==
  \/ last'.op \in {"ping", "stop", "clearcache", "clearcache_refused",
                   "leave_not_connected"} /\ last'.g = g
  \/ play_task[g].pc = "idle" /\ play_task'[g].pc \in {"connect", "resolve"}
  \/ leave_task[g] = "idle" /\ leave_task'[g] = "disconnect"

\* C24: a guild that has a GuildPlayerState keeps it: no step removes it from
\* guild_states, and a command that looks it up finds the queue, the current
\* song and the timer handle it had, not those of a new object.
C24_OneSessionPerGuild ==
  [][\A g \in DOMAIN guild_states :
       /\ g \in DOMAIN guild_states'
       /\ LooksUp(g) =>
            /\ guild_states'[g].queue = guild_states[g].queue
            /\ guild_states'[g].current_song_path = guild_states[g].current_song_path
            /\ guild_states'[g].inactive_timer = guild_states[g].inactive_timer]_vars

\* ping has just looked up the state of a guild that has a current song, a
\* waiting song and a timer
C24_LookedUpBusySession ==
  /\ last.op = "ping"
  /\ guild_states[last.g].queue # <<>>
  /\ guild_states[last.g].current_song_path # NoPath
  /\ guild_states[last.g].inactive_timer = "scheduled"

\* Request k of the script is over and the next one has not begun
Done(k) == budget = MaxScript - k /\ play_task[1].pc \in {"added", "idle"}

\* The entry of a video with a weight, as the code creates and counts it
Entry(video_id, weight) ==
  [SongMetadata(video_id, SizeOf(video_id)) EXCEPT !.weight = weight]

\* C25: with sizes a = 3, b = 2, c = 1 and MAX_CACHE_SIZE_BYTES = 4 (the
\* scenario's 60, 50, 40 and 100 in the model's scale) and an empty cache:
\* after play a, play b has evicted a before b is inserted and leaves
\* exactly b with total 2; another play b is a hit and gives b weight 2;
\* play c evicts nothing and leaves b (weight 2) and c (weight 1), total 3.
C25_ScenarioABBC ==
  world.script = <<3, 2, 2, 1>> =>
    /\ (Request = 2 /\ play_task[1].pc = "download") =>
         global_song_metadata = <<>> /\ current_cache_size_bytes = 0 /\ disk = {}
    /\ Done(2) =>
         global_song_metadata = <<Entry(2, 1)>> /\ current_cache_size_bytes = 2
    /\ Done(3) =>
         global_song_metadata = <<Entry(2, 2)>> /\ current_cache_size_bytes = 2
    /\ (Request = 4 /\ last.op = "evict") => last.evicted = <<>>
    /\ Done(4) =>
         global_song_metadata = <<Entry(2, 2), Entry(1, 1)>> /\ current_cache_size_bytes = 3

\* The four requests a, b, b, c have been served
C25_ScenarioServed ==
  world.script = <<3, 2, 2, 1>> /\ Done(4) /\ Len(global_song_metadata) = 2

\* C26: the commit of a background download keeps the cache within
\* MAX_CACHE_SIZE_BYTES: when current_cache_size_bytes is within the
\* capacity before the task records its file, it is so afterwards.
C26_CommitKeepsCapacity ==
  [][(last'.op = "commit" /\ current_cache_size_bytes <= MAX_CACHE_SIZE_BYTES)
       => current_cache_size_bytes' <= MAX_CACHE_SIZE_BYTES]_vars

\* The entries of meta that are not among the victims
Without(meta, victims) ==
  SelectSeq(meta, LAMBDA e : \A k \in 1..Len(victims) : victims[k].video_id # e.video_id)

\* C27: when os.remove of the chosen victim fails, the eviction loop stops:
\* the victim and all other entries not removed before stay in the metadata
\* (although the new song still does not fit), and the size is decremented
\* by the entries removed before the failure only.
C27_FailedRemoveStopsLoop ==
  [][(last'.op = "evict" /\ last'.rm_failed) =>
       /\ global_song_metadata' = Without(global_song_metadata, last'.evicted)
       /\ Len(global_song_metadata') + Len(last'.evicted) = Len(global_song_metadata)
       /\ global_song_metadata' # <<>>
       /\ current_cache_size_bytes' = current_cache_size_bytes - SumSizes(last'.evicted)
       /\ current_cache_size_bytes' + last'.est > MAX_CACHE_SIZE_BYTES
       /\ disk' = disk \ MetaIds(last'.evicted)]_vars

\* The loop has removed one entry and stopped at the next, whose file is
\* there and could not be removed
C27_StoppedAtSecondVictim ==
  /\ last.op = "evict" /\ last.rm_failed
  /\ Len(last.evicted) = 1
  /\ Len(global_song_metadata) = 1
  /\ MetaIds(global_song_metadata) \subseteq disk

\* The size of the cache before the k-th of the victims was removed
SizeBefore(total, victims, k) == total - SumSizes(SubSeq(victims, 1, k - 1))

\* C28: the eviction loop removes an entry only while the size of the cache
\* plus the size asked for exceeds MAX_CACHE_SIZE_BYTES: nothing is removed
\* when the song fits, each entry removed was removed while the song did not
\* fit yet, and the loop that ends without a failed removal ends with the
\* song fitting or the metadata empty.
C28_EvictsOnlyWhileNeeded ==
  [][last'.op = "evict" =>
       /\ (current_cache_size_bytes + last'.est <= MAX_CACHE_SIZE_BYTES
             => last'.evicted = <<>>)
       /\ (last'.est = 0 => last'.evicted = <<>>)
       /\ \A k \in 1..Len(last'.evicted) :
            SizeBefore(current_cache_size_bytes, last'.evicted, k) + last'.est
              > MAX_CACHE_SIZE_BYTES
       /\ ((~last'.rm_failed /\ last'.est # 0) =>
             \/ current_cache_size_bytes' + last'.est <= MAX_CACHE_SIZE_BYTES
             \/ global_song_metadata' = <<>>)
       /\ global_song_metadata' = Without(global_song_metadata, last'.evicted)]_vars

\* The loop has removed one entry, after which the song fits, and has left
\* another entry in the cache
C28_StoppedWhenFits ==
  /\ last.op = "evict" /\ ~last.rm_failed
  /\ Len(last.evicted) = 1
  /\ global_song_metadata # <<>>
  /\ current_cache_size_bytes + last.est <= MAX_CACHE_SIZE_BYTES

\* C29: when play, after appending its song, finds the guild without current
\* song and connected, the song it takes from the queue becomes the current
\* one: it is not dropped because the voice client is playing already.
C29_IdleEnqueueStarts ==
  (last.op = "play" /\ last.popped # <<>> /\ last.refused) => last.started # NoPath

\* The step runs play_next_song for guild g, connected and with an empty queue
AdvanceOnEmpty(g) ==
  /\ IsAdvance(last') /\ last'.g = g
  /\ g \in DOMAIN guild_states
  /\ guild_states[g].queue = <<>>
  /\ is_connected(View(guild_states, g))
  /\ last'.op = "play" => guild_states[g].current_song_path = NoPath

\* C30: play_next_song called for a connected guild whose queue is empty
\* sets current_song_path to None and leaves the timer as it is: the handle
\* of the guild and the scheduled call_later handles are the same after it.
C30_EmptyAdvanceKeepsTimer ==
  [][\A g \in Guilds :
       AdvanceOnEmpty(g) =>
         /\ guild_states'[g].current_song_path = NoPath
         /\ guild_states'[g].queue = <<>>
         /\ guild_states'[g].inactive_timer = guild_states[g].inactive_timer
         /\ timers'[g] = timers[g]
         /\ sink_connected'[g] = sink_connected[g]]_vars

\* The last song of a connected guild has finished with nothing queued and
\* the timer armed at its start is still scheduled
C30_FinishedWithLiveTimer ==
  /\ last.op = "song_finished" /\ last.popped = <<>>
  /\ is_connected(View(guild_states, last.g))
  /\ guild_states[last.g].current_song_path = NoPath
  /\ guild_states[last.g].inactive_timer = "scheduled"
  /\ timers[last.g] = 1

SessionUnchanged(g) ==
  /\ guild_states'[g] = get_or_create_guild_state(guild_states, g)[g]
  /\ sink_connected'[g] = sink_connected[g]
  /\ timers'[g] = timers[g]

\* C32: skip of a guild whose sink is playing stops the player and changes
\* neither queue nor current song; skip of a guild whose sink is not playing
\* while a current song is set runs play_next_song; skip of a guild whose
\* sink is not playing and that has no current song changes nothing.
C32_SkipCases ==
  [][\A g \in Guilds :
       /\ (last'.op = "stop" /\ last'.g = g) =>
            /\ sink_playing[g] /\ ~sink_playing'[g]
            /\ SessionUnchanged(g)
       /\ (last'.op = "skip" /\ last'.g = g) =>
            /\ ~sink_playing[g] /\ guild_states[g].current_song_path # NoPath
            /\ \E raise_at \in SUBSET (1..Len(guild_states[g].queue)) :
                 LET v1 == play_next_song(View(guild_states, g), disk, raise_at)
                 IN /\ guild_states'[g] = SessionOf(v1)
                    /\ sink_playing'[g] = v1.playing
                    /\ timers'[g] = v1.timers
       /\ (last'.op = "skip_nothing" /\ last'.g = g) =>
            /\ ~is_playing(View(get_or_create_guild_state(guild_states, g), g))
            /\ SessionUnchanged(g)
            /\ sink_playing'[g] = sink_playing[g]
            /\ after_pending'[g] = after_pending[g]]_vars

\* skip has stopped the player of a guild that has a song waiting: the song
\* stopped is still the current one and the queue is as it was
C32_StoppedOnly ==
  /\ last.op = "stop"
  /\ guild_states[last.g].current_song_path # NoPath
  /\ guild_states[last.g].queue # <<>>
  /\ after_pending[last.g] > 0

\* C33: check_inactive called for a guild without current song, whose voice
\* client is connected and not playing, disconnects the client, empties the
\* queue and clears the timer handle: the guild is left without current
\* song, disconnected and without scheduled timer.
C33_InactiveDisconnects ==
  [][\A g \in DOMAIN guild_states :
       (/\ last'.op = "check_inactive" /\ last'.g = g
        /\ guild_states[g].current_song_path = NoPath
        /\ ~is_playing(View(guild_states, g))
        /\ is_connected(View(guild_states, g))) =>
         /\ ~sink_connected'[g]
         /\ guild_states'[g].voice_client = "None"
         /\ guild_states'[g].queue = <<>>
         /\ guild_states'[g].current_song_path = NoPath
         /\ guild_states'[g].inactive_timer = "None"
         /\ timers'[g] = 0]_vars

\* check_inactive has just disconnected an idle guild
C33_DisconnectedByTimer ==
  /\ last.op = "check_inactive" /\ last.kind = "disconnect"
  /\ ~sink_connected[last.g]

\* C34: a granted clearcache ends with no metadata entry and a total of 0
\* whatever files fail to be removed; a failing removal does not keep the
\* other files, every file of the metadata whose removal did not fail is gone,
\* and the reported number of errors is the number of files that stayed
C34_ClearcacheEmpties ==
  [][last'.op = "clearcache" =>
       /\ global_song_metadata' = <<>>
       /\ current_cache_size_bytes' = 0
       /\ disk' \subseteq disk
       /\ disk \ disk' \subseteq MetaIds(global_song_metadata)
       /\ last'.errors = Cardinality(MetaIds(global_song_metadata) \cap disk')]_vars

\* C34 witness: a clearcache of two entries in which one removal failed and
\* the other file was removed
C34_OneRemovalFailed ==
  /\ last.op = "clearcache"
  /\ last.errors = 1
  /\ Len(last.evicted) = 2
  /\ Cardinality(MetaIds(last.evicted) \cap disk) = 1
  /\ global_song_metadata = <<>>

\* C35: after startup reconciliation the metadata holds exactly the prior
\* entries whose file is on disk and whose size could be read, in their prior
\* order; the total is the sum of the sizes of those files; and no file has
\* left the disk, files without metadata included
C35_StartupReconciles ==
  [][last'.op = "startup" =>
       LET prior == global_song_metadata
           readable == disk \ world.unreadable
       IN /\ MetaIds(global_song_metadata') = MetaIds(prior) \cap readable
          /\ Len(global_song_metadata') = Cardinality(MetaIds(prior) \cap readable)
          /\ \A i, j \in 1..Len(global_song_metadata') :
               i < j => IndexOf(prior, global_song_metadata'[i].video_id)
                          < IndexOf(prior, global_song_metadata'[j].video_id)
          /\ \A i \in 1..Len(global_song_metadata') :
               LET e == global_song_metadata'[i]
               IN /\ e.size_bytes = SizeOf(e.video_id)
                  /\ e.weight = prior[IndexOf(prior, e.video_id)].weight
          /\ current_cache_size_bytes' = SumSizes(global_song_metadata')
          /\ disk' = disk]_vars

\* C35 witness: a startup that kept an entry and dropped an entry whose file
\* is missing, with a file without metadata still on disk
C35_StartupDroppedAndKept ==
  /\ last.op = "startup"
  /\ global_song_metadata # <<>>
  /\ MetaIds(last.evicted) \ disk # {}
  /\ disk \ MetaIds(last.evicted) # {}
  /\ current_cache_size_bytes > 0

\* C36: a play that streams a video appends the stream URL to its guild's
\* queue and schedules the background download, and adds no entry to the
\* metadata, no byte to the total and no file, and neither does the rest of
\* that play command; the commit of the background download for a video
\* without entry is what adds its entry and its size
C36_StreamAddsNothing ==
  [][/\ (last'.op = "enqueue" /\ last'.kind = "stream") =>
          /\ guild_states'[last'.g].queue =
               Append(guild_states[last'.g].queue, Path(last'.video_id, TRUE))
          /\ tasks'[last'.video_id] = tasks[last'.video_id] + 1
          /\ MetaIds(global_song_metadata') = MetaIds(global_song_metadata)
          /\ current_cache_size_bytes' = current_cache_size_bytes
          /\ disk' = disk
     /\ \A g \in Guilds :
          (play_task[g].pc = "added" /\ play_task'[g].pc = "idle") =>
            UNCHANGED cache_vars
     /\ (last'.op = "commit" /\ last'.kind = "insert") =>
          /\ MetaIds(global_song_metadata') =
               MetaIds(global_song_metadata) \cup {last'.video_id}
          /\ current_cache_size_bytes' = current_cache_size_bytes + SizeOf(last'.video_id)]_vars

\* C36 witness: the background download commits the entry of a video whose
\* stream URL a guild has queued or is playing
C36_CommittedWhileStreamed ==
  /\ last.op = "commit"
  /\ last.kind = "insert"
  /\ last.video_id \in MetaIds(global_song_metadata)
  /\ \E g \in DOMAIN guild_states :
       \/ guild_states[g].current_song_path = Path(last.video_id, TRUE)
       \/ \E i \in 1..Len(guild_states[g].queue) :
            guild_states[g].queue[i] = Path(last.video_id, TRUE)

\* C37: whenever check_inactive disconnects a guild, the guild's queue is
\* empty at that moment: the inactivity timeout discards no entry that was
\* enqueued and not yet played
C37_TimeoutFindsQueueEmpty ==
  [][(last'.op = "check_inactive" /\ last'.kind = "disconnect") =>
       guild_states[last'.g].queue = <<>>]_vars

\* C38: a finished notification that arrives while the sink plays the
\* current entry belongs to an earlier player, whose entry is no longer
\* current; it neither clears current nor advances the queue
C38_StaleFinishIgnored ==
  [][\A g \in DOMAIN guild_states :
       (/\ last'.op = "song_finished" /\ last'.g = g
        /\ sink_playing[g]
        /\ guild_states[g].current_song_path # NoPath) =>
         /\ guild_states'[g].current_song_path = guild_states[g].current_song_path
         /\ guild_states'[g].queue = guild_states[g].queue]_vars

\* The session of guild h (its state object, its sink, its player, its
\* timers and the callbacks owed to it) is the same after the step
OtherUntouched(h) ==
  /\ h \in DOMAIN guild_states' <=> h \in DOMAIN guild_states
  /\ h \in DOMAIN guild_states => guild_states'[h] = guild_states[h]
  /\ sink_connected'[h] = sink_connected[h]
  /\ sink_playing'[h] = sink_playing[h]
  /\ timers'[h] = timers[h]
  /\ after_pending'[h] = after_pending[h]
  /\ play_task'[h] = play_task[h]
  /\ leave_task'[h] = leave_task[h]

\* C39: every step touches the session of one guild at most, the guild the
\* operation runs for: the queue, current song, timer handle, voice client,
\* sink and timers of every other guild are unchanged
C39_OtherGuildsUntouched ==
  [][\E g \in Guilds :
       /\ last'.g # 0 => g = last'.g
       /\ \A h \in Guilds \ {g} : OtherUntouched(h)]_vars

\* C39 witness: a song of one guild has finished while the other guild is
\* connected and playing its current song, with its timer scheduled
C39_FinishedBesideBusyGuild ==
  /\ last.op = "song_finished"
  /\ \E h \in DOMAIN guild_states \ {last.g} :
       /\ sink_connected[h] /\ sink_playing[h]
       /\ guild_states[h].current_song_path # NoPath
       /\ guild_states[h].inactive_timer = "scheduled"

\* C40: song_finished, or the play_next_song that skip calls, running for a
\* guild whose voice client is absent or not connected resets the session:
\* the queue is emptied, no song is current, a scheduled timer is cancelled
\* and the handle cleared, and no song is popped or started
C40_DisconnectedAdvanceResets ==
  [][\A g \in DOMAIN guild_states :
       (/\ last'.op \in {"song_finished", "skip"} /\ last'.g = g
        /\ ~is_connected(View(guild_states, g))) =>
         /\ guild_states'[g].queue = <<>>
         /\ guild_states'[g].current_song_path = NoPath
         /\ guild_states'[g].inactive_timer = "None"
         /\ timers'[g] = timers[g]
              - (IF guild_states[g].inactive_timer = "scheduled" THEN 1 ELSE 0)
         /\ last'.popped = <<>> /\ last'.started = NoPath
         /\ sink_playing'[g] = sink_playing[g]
         /\ sink_connected'[g] = sink_connected[g]]_vars

\* C40 witness: a song_finished of a disconnected guild has discarded a
\* queued song and left the session reset
C40_ResetDroppedQueue ==
  /\ last.op = "song_finished"
  /\ last.dropped # <<>>
  /\ ~sink_connected[last.g]
  /\ guild_states[last.g].queue = <<>>
  /\ guild_states[last.g].inactive_timer = "None"
  /\ timers[last.g] = 0

====
